---- MODULE Spec2Model ----
(***************************************************************************)
(* Model of the A2A chat hook (src/src/hooks/useChat.ts, first definition  *)
(* of useChat, lines 31-671): the conversation state machine, the blocking *)
(* send with its response normalizer, and the streaming reducer.           *)
(*                                                                         *)
(* React state is modelled by the variables messages, isLoading,           *)
(* currentTaskId and currentContextId.  A useCallback closure sees the     *)
(* state of the render in which it was (re)created; sendMessageSync and    *)
(* sendMessageStream list `messages` among their dependencies but not      *)
(* currentTaskId / currentContextId, so the two ids they see are those of  *)
(* the last render in which `messages` changed: the variable memo.         *)
(* sendMessage lists isLoading and messages, so it always sees the current *)
(* values of both.  Strings are sequences of tokens, so that concatenation *)
(* is \o and the empty string is << >>.                                    *)
(*                                                                         *)
(* Every action is one uninterrupted run of a handler between two awaits,  *)
(* followed by the render it causes.  One state update is not applied at   *)
(* once: the updater that appends the agent message of a stream and        *)
(* assigns agentMessageId is queued when a render is already pending on    *)
(* the component (React runs an updater eagerly only when none is), and    *)
(* runs at that render (RunUpdaters); the call field queued counts such    *)
(* updaters.  The variable stream holds the events of a stream that are    *)
(* known beforehand (SpecStream); elsewhere it is empty and events are     *)
(* chosen as they are read.  The variables relay, client and input are the *)
(* forwarding relay (src/src/app/api/proxy/route.ts), the A2A client and   *)
(* the attachment list of ChatInput (src/src/components/chat/ChatInput.tsx)*)
(* each exercised by a specification of its own.                           *)
(* stopTyping is not modelled: nothing                                     *)
(* calls simulateTyping, so typingStateRef.isTyping is always false and    *)
(* stopTyping changes no state.  The variable last and the call fields     *)
(* track, allAppend, delivered, requests and appended are history: they    *)
(* record what                                                             *)
(* a step or a call did (for a send the request it built, for a blocking   *)
(* reply the reply and the turn made of it), and no action reads them.     *)
(* The fileAttachments kept on a user message are display data that no     *)
(* handler reads back, and are left out of ChatMessage.                    *)
(***************************************************************************)
EXTENDS Integers, Sequences, FiniteSets, TLC

\* ---------------------------------------------------------------- bounds
MaxSends == 2          \* sendMessage calls accepted in one run
MaxEvents == 2         \* stream events delivered in one run of a conversation
MaxReducerEvents == 3  \* stream events delivered to the reducer on its own
MaxTurns == 12         \* turns of a conversation in which a request is built
MaxFiles == 2          \* attachments of one send
MaxReads == 2          \* reads of the transport on one connection
MaxBatches == 2        \* processFiles calls on one input
MaxSelected == 1       \* files selected or dropped at once
MaxSteps == 4          \* sends and stream events of one conversation together

\* ------------------------------------------------------------ value sets
NULL == "null"
TaskIds == {"t1", "t2"}
PropContextIds == {"c0"}      \* contextId prop, supplied from outside
ServerContextIds == {"c1"}    \* context ids a server reveals
ArtifactIds == {"a1", "a2"}
CURSOR == "cursor"            \* the streaming cursor character
NoResponse == <<"No response">>
EmptyResponse == <<"Empty response">>
StreamingErrorText == <<"Streaming error: ">>
ErrorText == <<"Error: ">>
Greeting == <<"Hello">>
HistoryLimit == 10            \* getMessageHistory: currentMessages.slice(-10)

TextPart(t) == [kind |-> "text", text |-> t, name |-> ""]
FilePart(n) == [kind |-> "file", text |-> << >>, name |-> n]

\* an optional list field of a ChatMessage: undefined, or a list
Undefined == [defined |-> FALSE, list |-> << >>]
Defined(l) == [defined |-> TRUE, list |-> l]

NoArtifact == [present |-> FALSE, artifactId |-> "a1", parts |-> << >>,
               description |-> "", metadata |-> FALSE]
Artifact(aid, ps, d) == [present |-> TRUE, artifactId |-> aid, parts |-> ps,
                         description |-> d, metadata |-> FALSE]

\* ------------------------------------------------------- stream events
StatusSet == { [kind |-> "absent", parts |-> << >>],
               [kind |-> "nomsg", parts |-> << >>],
               [kind |-> "msg", parts |-> <<TextPart(<<"A">>)>>],
               [kind |-> "msg", parts |-> <<TextPart(<<"B">>)>>] }

ArtifactSet == {NoArtifact, Artifact("a1", << >>, ""), Artifact("a1", << >>, "d"),
                Artifact("a1", <<TextPart(<<"C">>)>>, ""),
                Artifact("a1", <<FilePart("f1")>>, ""),
                Artifact("a1", <<FilePart("f2")>>, ""),
                Artifact("a1", <<TextPart(<<"C">>), FilePart("f1")>>, ""),
                Artifact("a2", <<FilePart("f2")>>, "")}

AppendSet == {"absent", "false", "true"}

\* events of the streaming reducer: every combination of status, artifact,
\* append and final (a status without message behaves as no status)
ReducerEvents ==
    [id : {NULL}, contextId : {NULL},
     status : {st \in StatusSet : st.kind # "nomsg"}, artifact : ArtifactSet,
     append : AppendSet, final : BOOLEAN]

\* events of the conversation state machine: every combination of revealed
\* ids with a status update that carries a text chunk or none
ConversationEvents ==
    [id : {NULL} \cup TaskIds, contextId : {NULL} \cup ServerContextIds,
     status : {[kind |-> "nomsg", parts |-> << >>],
               [kind |-> "msg", parts |-> <<TextPart(<<"A">>)>>]},
     artifact : {NoArtifact}, append : {"absent"}, final : BOOLEAN]

VARIABLES messages, isLoading, currentTaskId, currentContextId,
          memo, calls, props, eventsLeft, last, relay, client, stream, input

vars == <<messages, isLoading, currentTaskId, currentContextId,
          memo, calls, props, eventsLeft, last, relay, client, stream, input>>

\* the state of the useChat hook
hookVars == <<messages, isLoading, currentTaskId, currentContextId,
              memo, calls, props, eventsLeft, last>>

\* -------------------------------------------------------------- helpers
RECURSIVE JoinText(_)
\* parts.filter(p => p.kind === "text").map(p => p.text).join("")
JoinText(parts) ==
    IF parts = << >> THEN << >>
    ELSE (IF Head(parts).kind = "text" THEN Head(parts).text ELSE << >>)
         \o JoinText(Tail(parts))

\* variant: any part counts
HasAnyParts(parts) == Len(parts) > 0

\* parts.some(p => p.kind !== 'text')
HasNonTextParts(parts) == \E k \in DOMAIN parts : parts[k].kind # "text"

\* accumulatedArtifacts.findIndex(a => a.artifactId === artifact.artifactId)
FindIndex(arts, aid) ==
    IF \E k \in DOMAIN arts : arts[k].artifactId = aid
    THEN CHOOSE k \in DOMAIN arts :
            /\ arts[k].artifactId = aid
            /\ \A j \in DOMAIN arts : arts[j].artifactId = aid => k <= j
    ELSE 0

\* variant: an append to an existing artifact replaces its parts
ReconcileReplacesOnAppend(arts, artifact, appendMode) ==
    LET existingIndex == FindIndex(arts, artifact.artifactId) IN
    IF existingIndex > 0
    THEN [arts EXCEPT ![existingIndex] = artifact]
    ELSE Append(arts, artifact)

\* the update of accumulatedArtifacts for an artifact that has non-text parts
Reconcile(arts, artifact, appendMode) ==
    LET existingIndex == FindIndex(arts, artifact.artifactId) IN
    IF existingIndex > 0
    THEN IF appendMode
         THEN [arts EXCEPT ![existingIndex].parts = @ \o artifact.parts]
         ELSE [arts EXCEPT ![existingIndex] = artifact]
    ELSE Append(arts, artifact)

\* variant: every chunk is appended, whatever the append flag
ReconcileTextAlwaysAppends(accumulatedText, newTextChunk, isAppendMode) ==
    accumulatedText \o newTextChunk

\* the text reconciliation of a non-empty chunk
ReconcileText(accumulatedText, newTextChunk, isAppendMode) ==
    IF isAppendMode THEN accumulatedText \o newTextChunk ELSE newTextChunk

\* prev.map(msg => msg.id === id ? f(msg) : msg)
MapMessage(msgs, id, f(_)) ==
    [k \in DOMAIN msgs |-> IF msgs[k].id = id THEN f(msgs[k]) ELSE msgs[k]]

ChatMessage(id, sender, content, artifacts, parts) ==
    [id |-> id, sender |-> sender, content |-> content,
     artifacts |-> artifacts, parts |-> parts]

\* variant: a new message takes the current list length as its id
NextMessageIdIsLength(prev) == Len(prev)

\* id: prev.length + 1
NextMessageId(prev) == Len(prev) + 1

\* variant: the list shows the latest messages only, the oldest is dropped
AppendMessageDropsOldest(prev, sender, content, artifacts, parts) ==
    Tail(prev) \o <<ChatMessage(NextMessageId(prev), sender, content, artifacts, parts)>>

\* [...prev, message], the new message taking the next id
AppendMessage(prev, sender, content, artifacts, parts) ==
    Append(prev, ChatMessage(NextMessageId(prev), sender, content, artifacts, parts))

\* the taskId / contextId fields of the outgoing Message, built from the ids
\* the closure sees
BuildMessage(closureTaskId, closureContextId) ==
    [taskId |-> closureTaskId,
     contextId |-> IF closureContextId # NULL /\ closureTaskId = NULL
                   THEN closureContextId ELSE NULL]

\* history of a call: the one task id its response or events revealed so far
\* (NULL: none yet), or OFF when the call did not start alone in a Fresh
\* conversation, revealed two different ids, or was followed by a reset
OFF == "off"
Track(track, id) ==
    IF id = NULL \/ track = id THEN track
    ELSE IF track = NULL THEN id
    ELSE OFF

\* observation of the step just taken: the operation, and for a stream event
\* the call that read it, the locals newTextChunk and isAppendMode, the event's
\* final flag, whether the iteration ended at `continue`, and the running text
\* before the event
Op(op) == [op |-> op, call |-> 0, newTextChunk |-> << >>, isAppendMode |-> FALSE,
           final |-> FALSE, skipped |-> FALSE, prevText |-> << >>]
NoLast == Op("none")

NoDeliveries == [a \in ArtifactIds |-> [n |-> 0, parts |-> << >>, nonText |-> TRUE]]

InFlight(c) == c.pc \in {"sync", "stream"}

\* --------------------------------------------------- building a request
SPACE == " "

RECURSIVE TrimStart(_)
TrimStart(content) ==
    IF content # << >> /\ Head(content) = SPACE THEN TrimStart(Tail(content))
    ELSE content

RECURSIVE TrimEnd(_)
TrimEnd(content) ==
    IF content # << >> /\ content[Len(content)] = SPACE
    THEN TrimEnd(SubSeq(content, 1, Len(content) - 1))
    ELSE content

\* content.trim()
Trim(content) == TrimEnd(TrimStart(content))

\* a FileAttachment: base64 is "" while the file has not been read, and for a
\* file of zero bytes (readFileAsBase64 resolves with "")
FileAttachment(name, status, base64) == [name |-> name, status |-> status, base64 |-> base64]
FileNames == <<"f1", "f2", "f3">>
FileStates == {[status |-> "pending", base64 |-> ""], [status |-> "reading", base64 |-> ""],
               [status |-> "error", base64 |-> ""], [status |-> "ready", base64 |-> "b"],
               [status |-> "ready", base64 |-> ""]}

\* the attachment lists of at most n files
AttachmentLists(n) ==
    UNION {{[k \in 1..len |-> FileAttachment(FileNames[k], f[k].status, f[k].base64)] :
               f \in [1..len -> FileStates]} : len \in 0..n}

\* variant: every attachment with status ready gives a part
BuildFilePartsForReady(files) ==
    LET ready == SelectSeq(files, LAMBDA f : f.status = "ready")
    IN [k \in 1..Len(ready) |-> FilePart(ready[k].name)]

BuildFileParts(files) ==
    LET ready == SelectSeq(files, LAMBDA f : f.status = "ready" /\ f.base64 # "")
    IN [k \in 1..Len(ready) |-> FilePart(ready[k].name)]

ConvertChatMessageToA2AMessage(chatMessage, contextId) ==
    [role |-> IF chatMessage.sender = "user" THEN "user" ELSE "agent",
     text |-> chatMessage.content,
     contextId |-> contextId,
     originalId |-> chatMessage.id]

\* variant: the first ten messages are taken
GetMessageHistoryFromStart(currentMessages, contextId) ==
    LET n == Len(currentMessages)
        messagesToInclude ==
            IF n = 1 /\ currentMessages[1].id = 1 THEN << >>
            ELSE SubSeq(currentMessages, 1, IF n > HistoryLimit THEN HistoryLimit ELSE n)
    IN [k \in 1..Len(messagesToInclude) |->
           ConvertChatMessageToA2AMessage(messagesToInclude[k], contextId)]

GetMessageHistory(currentMessages, contextId) ==
    LET n == Len(currentMessages)
        messagesToInclude ==
            IF n = 1 /\ currentMessages[1].id = 1 THEN << >>
            ELSE SubSeq(currentMessages, IF n > HistoryLimit THEN n - HistoryLimit + 1 ELSE 1, n)
    IN [k \in 1..Len(messagesToInclude) |->
           ConvertChatMessageToA2AMessage(messagesToInclude[k], contextId)]

\* the MessageSendParams of sendMessageSync / TaskSendParams of
\* sendMessageStream, built from the messages the closure sees
SendParams(mode, content, fileAttachments, closureMessages, contextId) ==
    LET messageHistory == GetMessageHistory(closureMessages, contextId)
    IN [method |-> mode,
        parts |-> <<TextPart(content)>> \o
                  (IF Len(fileAttachments) > 0 THEN BuildFileParts(fileAttachments)
                   ELSE << >>),
        configuration |-> IF mode = "sync"
                          THEN [present |-> TRUE, historyLength |-> Len(messageHistory),
                                blocking |-> TRUE]
                          ELSE [present |-> FALSE, historyLength |-> 0, blocking |-> FALSE],
        messageHistory |-> messageHistory,
        historyCount |-> IF mode = "stream" THEN Len(messageHistory) ELSE -1,
        totalMessages |-> Len(closureMessages) + 1]

\* the locals of one sendMessage call at its first await: the Message it sent,
\* built from the ids its closure sees, and the empty accumulators
NewCall(mode, closure, freshAndAlone) ==
    [pc |-> mode,
     message |-> BuildMessage(closure.taskId, closure.contextId),
     closureTaskId |-> closure.taskId,
     agentMessageId |-> 0,
     accumulatedText |-> << >>,
     accumulatedArtifacts |-> << >>,
     ended |-> "no",
     track |-> IF freshAndAlone THEN NULL ELSE OFF,
     allAppend |-> TRUE,
     delivered |-> NoDeliveries,
     requests |-> 1,
     queued |-> 0,
     appended |-> 0]


\* ------------------------------------------ the forwarding relay (POST)
ABSENT == "absent"            \* a header or field that is not there
OwnOrigin == "http://relay"   \* protocol and host of request.url
OtherOrigin == "http://other"

\* a header name as a Headers object keeps it
Lower(name) ==
    CASE name = "Authorization" -> "authorization"
      [] name = "Connection" -> "connection"
      [] name = "Content-Type" -> "content-type"
      [] name = "Cache-Control" -> "cache-control"
      [] name = "X-Accel-Buffering" -> "x-accel-buffering"
      [] OTHER -> name

\* new Headers(record), for a record without two spellings of one name
NewHeaders(record) ==
    [n \in {Lower(k) : k \in DOMAIN record} |->
        record[CHOOSE k \in DOMAIN record : Lower(k) = n]]

\* headers.set(name, value)
HeadersSet(headers, name, value) ==
    [n \in DOMAIN headers \cup {Lower(name)} |->
        IF n = Lower(name) THEN value ELSE headers[n]]

NoCustomHeaders == [defined |-> FALSE, record |-> << >>]
CustomHeaders(record) == [defined |-> TRUE, record |-> record]

\* variant: a header of the request is kept when a custom header has its name
MergeHeadersBaseWins(requestHeaders, customHeaders) ==
    LET base == NewHeaders(requestHeaders)
        custom == NewHeaders(customHeaders.record)
    IN [n \in DOMAIN base \cup DOMAIN custom |->
           IF n \in DOMAIN base THEN base[n] ELSE custom[n]]

\* the Headers given to fetch: the request's headers, then every custom header
\* set over them
MergeHeaders(requestHeaders, customHeaders) ==
    LET base == NewHeaders(requestHeaders)
        custom == NewHeaders(customHeaders.record)
    IN [n \in DOMAIN base \cup DOMAIN custom |->
           IF n \in DOMAIN custom THEN custom[n] ELSE base[n]]

NoReferer == [present |-> FALSE, valid |-> FALSE, origin |-> ""]
\* a Referer that new URL() parses, with the origin of the parsed URL
Referer(origin) == [present |-> TRUE, valid |-> TRUE, origin |-> origin]
MalformedReferer == [present |-> TRUE, valid |-> FALSE, origin |-> ""]

\* variant: only the Origin header is checked
OriginCheckIgnoresReferer(request) ==
    IF request.origin \notin {ABSENT, ""} /\ request.origin # OwnOrigin
    THEN "forbidden"
    ELSE "ok"

\* variant: a request that names no origin at all is refused
OriginCheckRequiresOrigin(request) ==
    IF request.origin \notin {ABSENT, ""} /\ request.origin # OwnOrigin
    THEN "forbidden"
    ELSE IF request.origin \in {ABSENT, ""} /\ request.referer.present
    THEN IF ~request.referer.valid THEN "throw"
         ELSE IF request.referer.origin # OwnOrigin THEN "forbidden"
         ELSE "ok"
    ELSE IF request.origin \in {ABSENT, ""} THEN "forbidden"
    ELSE "ok"

\* the same-origin check: "forbidden", "ok", or "throw" when new URL(referer)
\* throws
OriginCheck(request) ==
    IF request.origin \notin {ABSENT, ""} /\ request.origin # OwnOrigin
    THEN "forbidden"
    ELSE IF request.origin \in {ABSENT, ""} /\ request.referer.present
    THEN IF ~request.referer.valid THEN "throw"
         ELSE IF request.referer.origin # OwnOrigin THEN "forbidden"
         ELSE "ok"
    ELSE "ok"

HeadersToStrip == {"connection", "keep-alive", "proxy-authenticate",
                   "proxy-authorization", "te", "trailers", "transfer-encoding",
                   "upgrade", "content-encoding", "content-length"}

\* variant: only the hop-by-hop headers are left out
StripHopByHopOnly(headers) ==
    [n \in DOMAIN headers \ (HeadersToStrip \ {"content-encoding", "content-length"}) |->
        headers[n]]

\* the headers of the target's response that are forwarded
StripHeaders(headers) ==
    [n \in DOMAIN headers \ HeadersToStrip |-> headers[n]]

\* the headers of a streaming response
StreamHeaders(headers) ==
    HeadersSet(
        HeadersSet(
            HeadersSet(
                HeadersSet(StripHeaders(headers), "Content-Type", "text/event-stream"),
                "Cache-Control", "no-cache, no-transform"),
            "Connection", "keep-alive"),
        "X-Accel-Buffering", "no")

\* content types that include "text/event-stream"
EventStreamTypes == {"text/event-stream", "text/event-stream; charset=utf-8"}
IsSSE(headers) ==
    "content-type" \in DOMAIN headers /\ headers["content-type"] \in EventStreamTypes

JsonHeaders == [n \in {"content-type"} |-> "application/json"]
ErrorResponse(status, error) ==
    [status |-> status, headers |-> JsonHeaders, streamed |-> FALSE, error |-> error]

NoOutgoing == [url |-> "", method |-> "", headers |-> << >>, hasBody |-> FALSE]
\* what fetch settled with: nothing yet, a response (its status, and whether
\* it is an event stream), or a rejection
NoUpstream == [settled |-> "none", status |-> 0, sse |-> FALSE]
\* the statuses for which new Response(body, {status}) throws when body is
\* not null
NullBodyStatuses == {101, 103, 204, 205, 304}
NoRelayResponse == [status |-> 0, headers |-> << >>, streamed |-> FALSE, error |-> ""]

\* requests of the relay
HeaderNameSets == {{}, {"Authorization"}, {"authorization"}, {"x-a"},
                   {"Authorization", "x-a"}, {"authorization", "x-a"}}
RelayRequests ==
    [origin : {ABSENT, "", OwnOrigin, OtherOrigin},
     referer : {NoReferer, Referer(OwnOrigin), Referer(OtherOrigin), MalformedReferer},
     valid : BOOLEAN,
     url : {"", "target"},
     method : {ABSENT, "GET"},
     headers : {[k \in names |-> "b"] : names \in HeaderNameSets},
     customHeaders : {NoCustomHeaders}
                     \cup {CustomHeaders([k \in names |-> "c"]) : names \in HeaderNameSets},
     body : {"", "x"}]

\* responses of the target
ContentTypes == {ABSENT, "application/json"} \cup EventStreamTypes
TargetHeaders ==
    {<< >>, [n \in HeadersToStrip \cup {"x-up"} |-> "u"]}
    \cup {[n \in {h, "x-up"} |-> "u"] : h \in HeadersToStrip}
TargetResponses ==
    {[status |-> st,
      headers |-> IF ct = ABSENT THEN h ELSE HeadersSet(h, "Content-Type", ct)] :
        st \in {200, 204, 500}, ct \in ContentTypes, h \in TargetHeaders}

\* no request has reached the relay
RelayIdle == [pc |-> "idle", request |-> << >>, fetched |-> FALSE,
              outgoing |-> NoOutgoing, upstream |-> NoUpstream,
              response |-> NoRelayResponse]

\* POST up to `await fetch`: the origin check, the body, the headers
RelayPost(request) ==
    LET actualMethod == IF request.method = ABSENT THEN "POST" ELSE request.method
        refused(response) ==
            [pc |-> "responded", request |-> request, fetched |-> FALSE,
             outgoing |-> NoOutgoing, upstream |-> NoUpstream, response |-> response]
    IN
    /\ relay.pc = "idle"
    /\ relay' =
         IF OriginCheck(request) = "forbidden"
         THEN refused(ErrorResponse(403, "Unauthorized origin"))
         ELSE IF OriginCheck(request) = "throw" \/ ~request.valid
         THEN refused(ErrorResponse(500, "error.message"))
         ELSE IF request.url = ""
         THEN refused(ErrorResponse(400, "URL is required"))
         ELSE [pc |-> "fetching", request |-> request, fetched |-> TRUE,
               outgoing |-> [url |-> request.url, method |-> actualMethod,
                             headers |-> MergeHeaders(request.headers,
                                                      request.customHeaders),
                             hasBody |-> request.body # ""
                                         /\ actualMethod \notin {"GET", "HEAD"}],
               upstream |-> NoUpstream,
               response |-> NoRelayResponse]
    /\ UNCHANGED <<hookVars, client, stream, input>>

\* fetch resolves with the target's response: the relay's response.  An
\* event stream is passed on with the target's body (null for a null-body
\* status); otherwise the body is read as text, and building a Response
\* from that text with a null-body status throws into the catch block
RelayFetchResolves(target) ==
    /\ relay.pc = "fetching"
    /\ relay' = [relay EXCEPT
           !.pc = "responded",
           !.upstream = [settled |-> "response", status |-> target.status,
                         sse |-> IsSSE(target.headers)],
           !.response =
               IF IsSSE(target.headers)
               THEN [status |-> target.status, headers |-> StreamHeaders(target.headers),
                     streamed |-> TRUE, error |-> ""]
               ELSE IF target.status \in NullBodyStatuses
               THEN ErrorResponse(500, "error.message")
               ELSE [status |-> target.status, headers |-> StripHeaders(target.headers),
                     streamed |-> FALSE, error |-> ""]]
    /\ UNCHANGED <<hookVars, client, stream, input>>

\* variant: a target that cannot be reached is reported as a bad gateway
RelayFetchThrowsBadGateway ==
    /\ relay.pc = "fetching"
    /\ relay' = [relay EXCEPT !.pc = "responded",
                              !.upstream = [NoUpstream EXCEPT !.settled = "threw"],
                              !.response = ErrorResponse(502, "error.message")]
    /\ UNCHANGED <<hookVars, client, stream, input>>

\* fetch rejects: the catch block
RelayFetchThrows ==
    /\ relay.pc = "fetching"
    /\ relay' = [relay EXCEPT !.pc = "responded",
                              !.upstream = [NoUpstream EXCEPT !.settled = "threw"],
                              !.response = ErrorResponse(500, "error.message")]
    /\ UNCHANGED <<hookVars, client, stream, input>>

\* ------------------------------ the A2A client: discovery and timeout
\* The client (src/a2a/client.ts) is described by the specification and by
\* IMPLEMENTATION_FIXES.md only; this section follows those descriptions.
WellKnownPaths == <<"/.well-known/agent-card.json", "/.well-known/agent.json">>
FallbackMethod == "agent/card"

\* the descriptor served at a path, or returned by the protocol-level method
Card(from) == <<"card", from>>

\* variant: the descriptor of the first path is returned whichever path won
CardAtFirst(index) == Card(WellKnownPaths[1])

\* the descriptor of the path that answered
CardAt(index) == Card(WellKnownPaths[index])

\* variant: a server error lets discovery go on with the next path
PathOutcomeContinuesOnError(status, parseable, onUnparseable) ==
    IF status = 200 /\ parseable THEN "win"
    ELSE IF status = 200 THEN onUnparseable
    ELSE "next"

\* what the answer of one well-known path means for discovery: the path wins,
\* the next path is tried, or discovery fails.  What a 200 without a parseable
\* descriptor means is not described: it is either of the last two.
PathOutcome(status, parseable, onUnparseable) ==
    IF status = 200 /\ parseable THEN "win"
    ELSE IF status = 200 THEN onUnparseable
    ELSE IF status = 404 THEN "next"
    ELSE "fail"

DiscoveryIdle == [pc |-> "idle", index |-> 1, answers |-> << >>, fallbackTried |-> FALSE,
                  result |-> "none", card |-> << >>, error |-> ""]
TransportIdle == [pc |-> "idle", reads |-> 0, outcome |-> "none", expired |-> FALSE,
                  released |-> FALSE]
ClientIdle == [discovery |-> DiscoveryIdle, transport |-> TransportIdle]

DiscoveryStart ==
    /\ client.discovery.pc = "idle"
    /\ client' = [client EXCEPT !.discovery.pc = "trying"]
    /\ UNCHANGED <<hookVars, relay, stream, input>>

\* the well-known path at index is requested and answers
DiscoveryPathAnswer(status, parseable, onUnparseable) ==
    LET d == client.discovery
        answers == Append(d.answers, [path |-> WellKnownPaths[d.index],
                                      status |-> status, parseable |-> parseable])
        outcome == PathOutcome(status, parseable, onUnparseable)
        all404 == \A k \in DOMAIN answers : answers[k].status = 404
    IN
    /\ d.pc = "trying"
    /\ client' = [client EXCEPT !.discovery =
         IF outcome = "win"
         THEN [d EXCEPT !.pc = "done", !.answers = answers, !.result = "card",
                        !.card = CardAt(d.index)]
         ELSE IF outcome = "fail"
         THEN [d EXCEPT !.pc = "done", !.answers = answers, !.result = "failed",
                        !.error = "server error"]
         ELSE IF d.index < Len(WellKnownPaths)
         THEN [d EXCEPT !.index = d.index + 1, !.answers = answers]
         ELSE IF all404
         THEN [d EXCEPT !.pc = "fallback", !.answers = answers]
         ELSE [d EXCEPT !.pc = "done", !.answers = answers, !.result = "failed",
                        !.error = "server error"]]
    /\ UNCHANGED <<hookVars, relay, stream, input>>

\* the request of a well-known path fails below HTTP
DiscoveryPathThrows ==
    /\ client.discovery.pc = "trying"
    /\ client' = [client EXCEPT !.discovery.pc = "done",
                                !.discovery.result = "failed",
                                !.discovery.error = "transport error"]
    /\ UNCHANGED <<hookVars, relay, stream, input>>

\* the protocol-level discovery method answers, or fails
DiscoveryFallback(ok) ==
    /\ client.discovery.pc = "fallback"
    /\ client' = [client EXCEPT
           !.discovery.pc = "done",
           !.discovery.fallbackTried = TRUE,
           !.discovery.result = IF ok THEN "card" ELSE "failed",
           !.discovery.card = IF ok THEN Card(FallbackMethod) ELSE << >>,
           !.discovery.error = IF ok THEN "" ELSE "not found"]
    /\ UNCHANGED <<hookVars, relay, stream, input>>

\* a send is issued and its timeout armed
TransportSend ==
    /\ client.transport.pc = "idle"
    /\ client' = [client EXCEPT !.transport.pc = "pending"]
    /\ UNCHANGED <<hookVars, relay, stream, input>>

\* variant: the connection is still read after the call has ended
TransportReadAfterEnd ==
    /\ client.transport.pc \in {"pending", "done"}
    /\ client.transport.reads < MaxReads
    /\ client' = [client EXCEPT !.transport.reads = @ + 1]
    /\ UNCHANGED <<hookVars, relay, stream, input>>

\* the transport reads from the connection of the pending send
TransportRead ==
    /\ client.transport.pc = "pending"
    /\ client.transport.reads < MaxReads
    /\ client' = [client EXCEPT !.transport.reads = @ + 1]
    /\ UNCHANGED <<hookVars, relay, stream, input>>

\* the send completes, or fails, before the timeout: the timer is cleared
TransportSettles(outcome) ==
    /\ client.transport.pc = "pending"
    /\ client' = [client EXCEPT !.transport.pc = "done", !.transport.outcome = outcome]
    /\ UNCHANGED <<hookVars, relay, stream, input>>

\* the timeout expires while the send is pending: the request is aborted
TransportTimeout ==
    /\ client.transport.pc = "pending"
    /\ client' = [client EXCEPT !.transport.pc = "done", !.transport.outcome = "Timeout",
                                !.transport.expired = TRUE, !.transport.released = TRUE]
    /\ UNCHANGED <<hookVars, relay, stream, input>>

\* ------------------------------------------- ChatInput: file attachments
MAX_FILES == 10

\* the fileAttachments prop (the list the parent keeps), the processFiles
\* calls with what each holds in its closure, the counter that stands for the
\* unique ids, and the ids removed while files of other calls were being read
InputIdle == [fileAttachments |-> << >>, batches |-> << >>, nextId |-> 1,
              removed |-> {}]

FileSizes == {"small", "big"}     \* "big": over MAX_FILE_SIZE_MB
Selections == UNION {[1..n -> FileSizes] : n \in 1..MaxSelected}

AttachmentIds(list) == {list[k].id : k \in DOMAIN list}

\* processFiles up to `await Promise.all`: the pending entries are added to
\* the list, and the synchronous part of each read sets the status of an
\* entry that is not too big to 'reading' on the very object the list holds
ProcessFiles(files) ==
    LET fileAttachments == input.fileAttachments
        slotsAvailable == MAX_FILES - Len(fileAttachments)
        filesToProcess == SubSeq(files, 1, IF Len(files) < slotsAvailable
                                           THEN Len(files) ELSE slotsAvailable)
        newAttachments ==
            [k \in DOMAIN filesToProcess |->
                [id |-> input.nextId + k - 1,
                 status |-> IF filesToProcess[k] = "big" THEN "pending" ELSE "reading"]]
        updatedAttachments == fileAttachments \o newAttachments
        tooBig == {newAttachments[k].id : k \in {j \in DOMAIN filesToProcess :
                                                    filesToProcess[j] = "big"}}
    IN
    /\ Len(input.batches) < MaxBatches
    /\ input' = IF slotsAvailable <= 0 THEN input
                ELSE [input EXCEPT
                        !.fileAttachments = updatedAttachments,
                        !.nextId = @ + Len(filesToProcess),
                        !.batches = Append(@,
                            [pc |-> "reading",
                             updatedAttachments |-> updatedAttachments,
                             newIds |-> AttachmentIds(newAttachments),
                             tooBig |-> tooBig])]
    /\ UNCHANGED <<hookVars, relay, client, stream>>

\* Promise.all of processFiles call b resolves, the files in `readable` having
\* been read and the others not: the list becomes the call's own
\* updatedAttachments with the processed entries put in
ProcessFilesResolves(b, readable) ==
    LET batch == input.batches[b]
        Processed(existing) ==
            IF existing.id \in batch.newIds
            THEN [existing EXCEPT !.status =
                     IF existing.id \in batch.tooBig THEN "error"
                     ELSE IF existing.id \in readable THEN "ready" ELSE "error"]
            ELSE existing
    IN
    /\ batch.pc = "reading"
    /\ input' = [input EXCEPT
           !.batches[b].pc = "done",
           !.fileAttachments = [k \in DOMAIN batch.updatedAttachments |->
                                   Processed(batch.updatedAttachments[k])]]
    /\ UNCHANGED <<hookVars, relay, client, stream>>

\* handleRemoveFile for an attachment that is shown
HandleRemoveFile(id) ==
    LET Others(f) == f.id # id
        readingOthers == \E b \in DOMAIN input.batches :
                            /\ input.batches[b].pc = "reading"
                            /\ id \notin input.batches[b].newIds
    IN
    /\ id \in AttachmentIds(input.fileAttachments)
    /\ input' = [input EXCEPT
           !.fileAttachments = SelectSeq(@, Others),
           !.removed = IF readingOthers THEN @ \cup {id} ELSE @]
    /\ UNCHANGED <<hookVars, relay, client, stream>>

\* ------------------------------------------------------------------ Init
Init ==
    /\ props \in [agentUrl : {NULL, "url"}, isStreamingEnabled : BOOLEAN,
                  contextId : {NULL} \cup PropContextIds]
    /\ messages = <<ChatMessage(1, "agent", Greeting, Undefined, Undefined)>>
    /\ isLoading = FALSE
    /\ currentTaskId = NULL
    /\ currentContextId = props.contextId
    /\ memo = [taskId |-> NULL, contextId |-> props.contextId]
    /\ calls = << >>
    /\ eventsLeft = MaxEvents
    /\ last = NoLast
    /\ relay = RelayIdle
    /\ client = ClientIdle
    /\ stream = << >>
    /\ input = InputIdle

\* React has run every state updater that calls other than i have queued:
\* the render scheduled by a setState runs before the next task, and only
\* what a for-await loop reads within one task can come before it
Rendered(i) == \A j \in DOMAIN calls : j # i => calls[j].queued = 0

\* the closures of sendMessageSync / sendMessageStream after this step's
\* render: recreated only if setMessages was called in the step
Render(setMessagesCalled) ==
    memo' = IF setMessagesCalled
            THEN [taskId |-> currentTaskId', contextId |-> currentContextId']
            ELSE memo

\* ----------------------------------------------------------- sendMessage
\* sendMessage up to its first await: the guard, the user message, and the
\* request built and issued by sendMessageSync / sendMessageStream
SendMessage(content, fileAttachments) ==
    /\ Len(calls) < MaxSends
    /\ Rendered(0)
    /\ UNCHANGED <<currentTaskId, currentContextId, props, eventsLeft, relay, client, stream, input>>
    /\ IF \/ (Trim(content) = << >> /\ Len(fileAttachments) = 0)
          \/ isLoading
          \/ props.agentUrl = NULL
       THEN /\ last' = NoLast
            /\ UNCHANGED <<messages, isLoading, memo, calls>>
       ELSE /\ last' = [op |-> "send", call |-> Len(calls) + 1, content |-> content,
                        fileAttachments |-> fileAttachments,
                        request |-> SendParams(IF props.isStreamingEnabled
                                               THEN "stream" ELSE "sync",
                                               content, fileAttachments, messages,
                                               props.contextId)]
            /\ messages' = AppendMessage(messages, "user", content, Undefined, Undefined)
            /\ isLoading' = TRUE
            /\ calls' = Append(calls,
                   NewCall(IF props.isStreamingEnabled THEN "stream" ELSE "sync",
                           memo,
                           /\ currentTaskId = NULL
                           /\ \A k \in DOMAIN calls : ~InFlight(calls[k])))
            /\ Render(TRUE)

\* ------------------------------------------------------ resetConversation
\* variant: the reset keeps whatever context id the conversation has
ResetConversationKeepsContext ==
    /\ Rendered(0)
    /\ currentTaskId' = NULL
    /\ currentContextId' = currentContextId
    /\ calls' = [k \in DOMAIN calls |-> [calls[k] EXCEPT !.track = OFF]]
    /\ last' = Op("reset")
    /\ Render(FALSE)
    /\ UNCHANGED <<messages, isLoading, props, eventsLeft, relay, client, stream, input>>

ResetConversation ==
    /\ Rendered(0)
    /\ currentTaskId' = NULL
    /\ currentContextId' = props.contextId
    /\ calls' = [k \in DOMAIN calls |-> [calls[k] EXCEPT !.track = OFF]]
    /\ last' = Op("reset")
    /\ Render(FALSE)
    /\ UNCHANGED <<messages, isLoading, props, eventsLeft, relay, client, stream, input>>

\* variant: the text of the status message is kept when both are there
NewTextChunkStatusFirst(statusChunk, artifactChunk) ==
    IF statusChunk # << >> THEN statusChunk ELSE artifactChunk

\* newTextChunk after the status block and the artifact block of one
\* iteration: each block assigns it when its text parts are non-empty, the
\* artifact block last
NewTextChunk(statusChunk, artifactChunk) ==
    IF artifactChunk # << >> THEN artifactChunk ELSE statusChunk

\* ------------------------------------------------------ sendMessageStream
\* one iteration of the for-await loop of call i on event e, and, when the
\* loop breaks, the return into sendMessage and its finally block
StreamEvent(i, e) ==
    LET c == calls[i]
        artifact == e.artifact
        statusChunk == IF e.status.kind = "msg" THEN JoinText(e.status.parts) ELSE << >>
        appendMode == e.append = "true"
        hasArtifactParts == Len(artifact.parts) > 0
        hasUsefulArtifactContent ==
            hasArtifactParts \/ artifact.description # "" \/ artifact.metadata
        skipped == artifact.present /\ ~hasUsefulArtifactContent
        hasNonTextParts == artifact.present /\ HasNonTextParts(artifact.parts)
        arts == IF hasNonTextParts
                THEN Reconcile(c.accumulatedArtifacts, artifact, appendMode)
                ELSE c.accumulatedArtifacts
        artifactChunk == IF artifact.present THEN JoinText(artifact.parts) ELSE << >>
        newTextChunk == NewTextChunk(statusChunk, artifactChunk)
        isAppendMode == e.append = "true"
        text == IF newTextChunk # << >>
                THEN ReconcileText(c.accumulatedText, newTextChunk, isAppendMode)
                ELSE c.accumulatedText
        \* a setCurrentTaskId or setCurrentContextId of this iteration changed
        \* the state: a render is pending on the component
        scheduled == \/ e.id # NULL /\ c.closureTaskId = NULL /\ e.id # currentTaskId
                     \/ e.contextId # NULL /\ e.contextId # currentContextId
        \* with a render pending the updater that creates the message is
        \* queued, and agentMessageId is assigned only when React runs it
        deferred == /\ newTextChunk # << >>
                    /\ c.agentMessageId = 0
                    /\ scheduled \/ c.queued > 0
        created == newTextChunk # << >> /\ c.agentMessageId = 0 /\ ~deferred
        \* messages after "Update message with new artifacts"
        m1 == IF hasNonTextParts /\ c.agentMessageId # 0
              THEN LET SetArts(msg) == [msg EXCEPT !.artifacts = Defined(arts)]
                   IN MapMessage(messages, c.agentMessageId, SetArts)
              ELSE messages
        \* messages after "Create or update message"
        m2 == IF newTextChunk = << >> THEN m1
              ELSE IF c.agentMessageId # 0
              THEN LET SetContent(msg) == [msg EXCEPT !.content = Append(text, CURSOR)]
                   IN MapMessage(m1, c.agentMessageId, SetContent)
              ELSE IF deferred THEN m1
              ELSE AppendMessage(m1, "agent", Append(text, CURSOR),
                                          Defined(<< >>), Defined(<< >>))
        agentMessageId == IF created THEN NextMessageId(m1) ELSE c.agentMessageId
        \* messages after "Check for completion"
        m3 == IF e.final /\ agentMessageId # 0
              THEN LET Finish(msg) ==
                           [msg EXCEPT !.content = text,
                                       !.artifacts = IF Len(arts) > 0 THEN Defined(arts)
                                                     ELSE Undefined,
                                       !.parts = Undefined]
                   IN MapMessage(m2, agentMessageId, Finish)
              ELSE m2
        ids == /\ currentTaskId' = IF e.id # NULL /\ c.closureTaskId = NULL
                                   THEN e.id ELSE currentTaskId
               /\ currentContextId' = IF e.contextId # NULL
                                      THEN e.contextId ELSE currentContextId
        hist == [c EXCEPT
                   !.track = Track(@, e.id),
                   !.allAppend = @ /\ (artifact.present => e.append = "true"),
                   !.delivered = IF artifact.present
                                 THEN [@ EXCEPT ![artifact.artifactId] =
                                         [n |-> @.n + 1,
                                          parts |-> @.parts \o artifact.parts,
                                          nonText |-> @.nonText /\ hasNonTextParts]]
                                 ELSE @]
    IN
    /\ c.pc = "stream"
    /\ Rendered(i)
    /\ eventsLeft > 0
    /\ eventsLeft' = eventsLeft - 1
    /\ ids
    /\ UNCHANGED <<props, relay, client, stream, input>>
    /\ IF skipped
       THEN \* continue: the rest of the iteration is not executed
            /\ calls' = [calls EXCEPT ![i] = hist]
            /\ last' = [op |-> "event", call |-> i, newTextChunk |-> << >>,
                        isAppendMode |-> isAppendMode, final |-> e.final,
                        skipped |-> TRUE, prevText |-> c.accumulatedText]
            /\ Render(FALSE)
            /\ UNCHANGED <<messages, isLoading>>
       ELSE /\ messages' = m3
            /\ isLoading' = IF created \/ deferred \/ e.final THEN FALSE ELSE isLoading
            /\ calls' = [calls EXCEPT ![i] =
                  [hist EXCEPT !.pc = IF e.final THEN "done" ELSE "stream",
                               !.ended = IF e.final THEN "final" ELSE "no",
                               !.agentMessageId = agentMessageId,
                               !.queued = IF deferred THEN @ + 1 ELSE @,
                               !.appended = IF created THEN @ + 1 ELSE @,
                               !.accumulatedText = text,
                               !.accumulatedArtifacts = arts]]
            /\ last' = [op |-> "event", call |-> i, newTextChunk |-> newTextChunk,
                        isAppendMode |-> isAppendMode, final |-> e.final,
                        skipped |-> FALSE, prevText |-> c.accumulatedText]
            /\ Render(\/ (hasNonTextParts /\ c.agentMessageId # 0)
                      \/ newTextChunk # << >>
                      \/ (e.final /\ agentMessageId # 0))

RECURSIVE AppendAgentMessages(_, _, _)
\* n runs of the updater that creates the agent message, one after the other
AppendAgentMessages(prev, content, n) ==
    IF n = 0 THEN prev
    ELSE AppendAgentMessages(
             AppendMessage(prev, "agent", content,
                                      Defined(<< >>), Defined(<< >>)),
             content, n - 1)

\* React renders: the queued updaters of call i run in order, each appending
\* an agent message with the text accumulated by now and assigning its id to
\* agentMessageId
RunUpdaters(i) ==
    LET c == calls[i]
        after == AppendAgentMessages(messages, Append(c.accumulatedText, CURSOR), c.queued)
    IN
    /\ c.queued > 0
    /\ messages' = after
    /\ calls' = [calls EXCEPT ![i].agentMessageId = Len(after),
                              ![i].queued = 0,
                              ![i].appended = @ + c.queued]
    /\ last' = NoLast
    /\ UNCHANGED <<isLoading, currentTaskId, currentContextId, props, eventsLeft,
                   relay, client, stream, input>>
    /\ Render(TRUE)

\* variant: the finally block is missing when the stream just ends
StreamEndKeepsLoading(i) ==
    /\ calls[i].pc = "stream"
    /\ Rendered(i)
    /\ calls' = [calls EXCEPT ![i].pc = "done", ![i].ended = "eof"]
    /\ last' = NoLast
    /\ UNCHANGED <<messages, isLoading, currentTaskId, currentContextId, props,
                   eventsLeft, relay, client, stream, input>>
    /\ Render(FALSE)

\* the event sequence of call i ends without a final event: the loop exits,
\* sendMessageStream returns and sendMessage's finally block runs
StreamEnd(i) ==
    /\ calls[i].pc = "stream"
    /\ Rendered(i)
    /\ calls' = [calls EXCEPT ![i].pc = "done", ![i].ended = "eof"]
    /\ isLoading' = FALSE
    /\ last' = NoLast
    /\ UNCHANGED <<messages, currentTaskId, currentContextId, props, eventsLeft, relay, client, stream, input>>
    /\ Render(FALSE)

\* the event sequence of call i throws: the catch block of sendMessageStream,
\* then the return and sendMessage's finally block
StreamThrow(i) ==
    LET c == calls[i]
        ShowError(msg) == [msg EXCEPT !.content = StreamingErrorText]
    IN
    /\ c.pc = "stream"
    /\ Rendered(i)
    /\ calls' = [calls EXCEPT ![i].pc = "done", ![i].ended = "error"]
    /\ messages' = IF c.agentMessageId # 0
                   THEN MapMessage(messages, c.agentMessageId, ShowError)
                   ELSE messages
    /\ isLoading' = FALSE
    /\ last' = NoLast
    /\ UNCHANGED <<currentTaskId, currentContextId, props, eventsLeft, relay, client, stream, input>>
    /\ Render(c.agentMessageId # 0)

\* -------------------------------------------------------- sendMessageSync
NoStatus == [present |-> FALSE, hasParts |-> FALSE, parts |-> << >>, contextId |-> NULL]
StatusMessage(ps, ctx) == [present |-> TRUE, hasParts |-> TRUE, parts |-> ps, contextId |-> ctx]

\* replies of message/send: a bare Message, a Task with status.message, a Task
\* with top-level artifacts, and no reply at all
MessageReplies ==
    [isNull : {FALSE}, kind : {"message"}, id : {NULL},
     contextId : {NULL} \cup ServerContextIds, status : {NoStatus},
     artifacts : {Undefined}, parts : {Defined(<<TextPart(<<"A">>)>>)}]

TaskStatusReplies ==
    [isNull : {FALSE}, kind : {"task"}, id : TaskIds, contextId : {NULL},
     status : {StatusMessage(<<TextPart(<<"A">>)>>, ctx) : ctx \in {NULL} \cup ServerContextIds},
     artifacts : {Undefined}, parts : {Undefined}]

TaskArtifactReplies ==
    [isNull : {FALSE}, kind : {"task"}, id : TaskIds,
     contextId : {NULL} \cup ServerContextIds, status : {NoStatus},
     artifacts : {Defined(<<Artifact("a1", <<TextPart(<<"A">>)>>, "")>>)},
     parts : {Undefined}]

NullReply == [isNull |-> TRUE, kind |-> "message", id |-> NULL, contextId |-> NULL,
              status |-> NoStatus, artifacts |-> Undefined, parts |-> Undefined]

Replies == MessageReplies \cup TaskStatusReplies \cup TaskArtifactReplies \cup {NullReply}

\* replies given to the normalizer on its own: every combination of kind, ids,
\* status (absent, without message, with message parts), top-level artifacts
\* and top-level parts, with and without text
StatusWithoutMessage == [present |-> TRUE, hasParts |-> FALSE, parts |-> << >>,
                         contextId |-> NULL]
StatusPartsSet == {<< >>, <<TextPart(<<"A">>)>>, <<TextPart(<< >>)>>, <<FilePart("f1")>>,
                   <<TextPart(<<"A">>), FilePart("f1"), TextPart(<<"B">>)>>}
ArtifactLists == {Undefined, Defined(<< >>),
                  Defined(<<Artifact("a1", <<TextPart(<<"C">>)>>, "")>>),
                  Defined(<<Artifact("a1", <<FilePart("f1")>>, "")>>),
                  Defined(<<Artifact("a1", <<TextPart(<<"C">>)>>, ""),
                            Artifact("a2", <<TextPart(<<"D">>)>>, "")>>),
                  Defined(<<Artifact("a1", <<FilePart("f1")>>, ""),
                            Artifact("a2", <<TextPart(<<"C">>), TextPart(<<"D">>)>>, "")>>)}
PartsLists == {Undefined, Defined(<< >>), Defined(<<TextPart(<<"E">>)>>),
               Defined(<<FilePart("f2")>>),
               Defined(<<TextPart(<<"E">>), FilePart("f2"), TextPart(<<"G">>)>>)}

NormalizerReplies ==
    [isNull : {FALSE}, kind : {"task", "message"}, id : {NULL, "t1"},
     contextId : {NULL} \cup ServerContextIds,
     status : {NoStatus, StatusWithoutMessage}
              \cup {StatusMessage(ps, ctx) : ps \in StatusPartsSet,
                                             ctx \in {NULL} \cup ServerContextIds},
     artifacts : ArtifactLists, parts : PartsLists]
    \cup {NullReply}

RECURSIVE ArtifactsText(_, _)
\* the loop over responseMessage.artifacts, starting from agentResponse
ArtifactsText(artifacts, agentResponse) ==
    IF artifacts = << >> THEN agentResponse
    ELSE LET textParts == JoinText(Head(artifacts).parts)
             next == IF textParts = << >> THEN agentResponse
                     ELSE IF agentResponse = NoResponse THEN textParts
                     ELSE agentResponse \o <<"\n">> \o textParts
         IN ArtifactsText(Tail(artifacts), next)

\* variant: a Task whose status.message.parts holds no text gets "No response"
NormalizeNoResponseForTasks(r) ==
    IF r.isNull THEN [text |-> NoResponse, parts |-> << >>, artifacts |-> << >>]
    ELSE IF r.kind = "task" /\ r.status.present
    THEN [text |-> IF r.status.hasParts /\ JoinText(r.status.parts) # << >>
                   THEN JoinText(r.status.parts) ELSE NoResponse,
          parts |-> IF r.status.hasParts THEN r.status.parts ELSE << >>,
          artifacts |-> r.artifacts.list]
    ELSE IF r.artifacts.defined
    THEN [text |-> ArtifactsText(r.artifacts.list, NoResponse),
          parts |-> << >>, artifacts |-> r.artifacts.list]
    ELSE IF r.parts.defined
    THEN [text |-> IF JoinText(r.parts.list) # << >>
                   THEN JoinText(r.parts.list) ELSE EmptyResponse,
          parts |-> r.parts.list, artifacts |-> << >>]
    ELSE [text |-> NoResponse, parts |-> << >>, artifacts |-> << >>]

\* the { text, parts, artifacts } returned by sendMessageSync
Normalize(r) ==
    IF r.isNull THEN [text |-> NoResponse, parts |-> << >>, artifacts |-> << >>]
    ELSE IF r.kind = "task" /\ r.status.present
    THEN [text |-> IF r.status.hasParts
                   THEN (IF JoinText(r.status.parts) # << >>
                         THEN JoinText(r.status.parts) ELSE EmptyResponse)
                   ELSE NoResponse,
          parts |-> IF r.status.hasParts THEN r.status.parts ELSE << >>,
          artifacts |-> r.artifacts.list]
    ELSE IF r.artifacts.defined
    THEN [text |-> ArtifactsText(r.artifacts.list, NoResponse),
          parts |-> << >>, artifacts |-> r.artifacts.list]
    ELSE IF r.parts.defined
    THEN [text |-> IF JoinText(r.parts.list) # << >>
                   THEN JoinText(r.parts.list) ELSE EmptyResponse,
          parts |-> r.parts.list, artifacts |-> << >>]
    ELSE [text |-> NoResponse, parts |-> << >>, artifacts |-> << >>]

\* the task id of the conversation after reply r: the reply's id when it is a
\* string
SavedTaskId(r, current) ==
    IF ~r.isNull /\ r.id # NULL THEN r.id ELSE current

\* variant: only a top-level contextId is saved
SavedContextIdTopLevelOnly(r, current) ==
    IF r.isNull THEN current
    ELSE IF r.contextId # NULL THEN r.contextId
    ELSE current

\* the context id of the conversation after reply r: the reply's top-level
\* contextId, else the one inside status.message
SavedContextId(r, current) ==
    IF r.isNull THEN current
    ELSE IF r.contextId # NULL THEN r.contextId
    ELSE IF r.status.present /\ r.status.contextId # NULL THEN r.status.contextId
    ELSE current

\* variant: the parts are shown separately whenever the reply has any
AgentMessagePartsWhenAny(parts) ==
    IF Len(parts) > 0 THEN Defined(parts) ELSE Undefined

\* the parts field of the agent message that sendMessage builds from a
\* blocking reply
AgentMessageParts(parts) ==
    IF Len(parts) > 0 /\ HasNonTextParts(parts) THEN Defined(parts) ELSE Undefined

\* client.sendMessage of call i resolves with reply r: the rest of
\* sendMessageSync, then the agent message and the finally block of sendMessage
SyncResponse(i, r) ==
    LET c == calls[i]
        syncResponse == Normalize(r)
    IN
    /\ c.pc = "sync"
    /\ Rendered(i)
    /\ currentTaskId' = SavedTaskId(r, currentTaskId)
    /\ currentContextId' = SavedContextId(r, currentContextId)
    /\ messages' = AppendMessage(messages, "agent", syncResponse.text,
                      IF Len(syncResponse.artifacts) > 0
                      THEN Defined(syncResponse.artifacts) ELSE Undefined,
                      AgentMessageParts(syncResponse.parts))
    /\ isLoading' = FALSE
    /\ calls' = [calls EXCEPT ![i].pc = "done", ![i].ended = "reply",
                              ![i].track = Track(@, IF r.isNull THEN NULL ELSE r.id)]
    /\ last' = [op |-> "reply", call |-> i, reply |-> r, syncResponse |-> syncResponse]
    /\ Render(TRUE)
    /\ UNCHANGED <<props, eventsLeft, relay, client, stream, input>>

\* variant: the first failure of a blocking send is answered by a second request
SyncThrowRetriesOnce(i) ==
    /\ calls[i].pc = "sync"
    /\ Rendered(i)
    /\ IF calls[i].requests = 1
       THEN /\ calls' = [calls EXCEPT ![i].requests = 2]
            /\ UNCHANGED <<messages, isLoading>>
       ELSE /\ messages' = AppendMessage(messages, "agent", ErrorText, Undefined, Undefined)
            /\ isLoading' = FALSE
            /\ calls' = [calls EXCEPT ![i].pc = "done", ![i].ended = "error"]
    /\ last' = NoLast
    /\ UNCHANGED <<currentTaskId, currentContextId, props, eventsLeft, relay, client, stream, input>>
    /\ Render(calls[i].requests # 1)

\* variant: a failed blocking send starts the conversation afresh
SyncThrowForgetsIds(i) ==
    /\ calls[i].pc = "sync"
    /\ Rendered(i)
    /\ messages' = AppendMessage(messages, "agent", ErrorText, Undefined, Undefined)
    /\ isLoading' = FALSE
    /\ calls' = [calls EXCEPT ![i].pc = "done", ![i].ended = "error"]
    /\ last' = NoLast
    /\ currentTaskId' = NULL
    /\ currentContextId' = props.contextId
    /\ UNCHANGED <<props, eventsLeft, relay, client, stream, input>>
    /\ Render(TRUE)

\* client.sendMessage of call i throws: the catch and finally of sendMessage
SyncThrow(i) ==
    /\ calls[i].pc = "sync"
    /\ Rendered(i)
    /\ messages' = AppendMessage(messages, "agent", ErrorText, Undefined, Undefined)
    /\ isLoading' = FALSE
    /\ calls' = [calls EXCEPT ![i].pc = "done", ![i].ended = "error"]
    /\ last' = NoLast
    /\ UNCHANGED <<currentTaskId, currentContextId, props, eventsLeft, relay, client, stream, input>>
    /\ Render(TRUE)

\* ------------------------------------------------------------------ Next
Contents == {<< >>, <<"U">>}
Attachments == {<< >>}     \* sends with attachments are those of SpecRequest

\* the sends accepted and the stream events delivered so far are fewer than
\* MaxSteps
StepsLeft == Len(calls) + (MaxEvents - eventsLeft) < MaxSteps

Next ==
    \/ StepsLeft /\ \E content \in Contents, files \in Attachments : SendMessage(content, files)
    \/ ResetConversation
    \/ StepsLeft /\ \E i \in DOMAIN calls, e \in ConversationEvents : StreamEvent(i, e)
    \/ \E i \in DOMAIN calls : StreamEnd(i)
    \/ \E i \in DOMAIN calls : StreamThrow(i)
    \/ \E i \in DOMAIN calls : RunUpdaters(i)
    \/ \E i \in DOMAIN calls, r \in Replies : SyncResponse(i, r)
    \/ \E i \in DOMAIN calls : SyncThrow(i)

Spec == Init /\ [][Next]_vars

\* the streaming reducer on its own: the first sendMessage of a conversation
\* in streaming mode has been accepted, and its stream delivers every kind
\* of event
InitReducer ==
    /\ props = [agentUrl |-> "url", isStreamingEnabled |-> TRUE, contextId |-> NULL]
    /\ messages = <<ChatMessage(1, "agent", Greeting, Undefined, Undefined),
                    ChatMessage(2, "user", <<"U">>, Undefined, Undefined)>>
    /\ isLoading = TRUE
    /\ currentTaskId = NULL
    /\ currentContextId = props.contextId
    /\ memo = [taskId |-> NULL, contextId |-> props.contextId]
    /\ calls = <<NewCall("stream", memo, TRUE)>>
    /\ eventsLeft = MaxReducerEvents
    /\ last = NoLast
    /\ relay = RelayIdle
    /\ client = ClientIdle
    /\ stream = << >>
    /\ input = InputIdle

NextReducer ==
    \/ \E e \in ReducerEvents : StreamEvent(1, e)
    \/ StreamEnd(1)
    \/ StreamThrow(1)

SpecReducer == InitReducer /\ [][NextReducer]_vars

\* the conversation with a client whose calls all return or throw: every
\* send in flight is eventually answered, failed or its stream ended, and a
\* pending render eventually runs
InitLive ==
    /\ Init
    /\ props.agentUrl # NULL
    /\ props.contextId = NULL

LiveEvents ==
    [id : {NULL, "t1"}, contextId : {NULL},
     status : {[kind |-> "nomsg", parts |-> << >>],
               [kind |-> "msg", parts |-> <<TextPart(<<"A">>)>>]},
     artifact : {NoArtifact}, append : {"absent"}, final : BOOLEAN]

LiveReplies == {r \in Replies : r.contextId = NULL /\ r.id \in {NULL, "t1"}}

\* the client call of call i returns or throws, or its stream comes to an end
Completes(i) ==
    \/ \E r \in LiveReplies : SyncResponse(i, r)
    \/ SyncThrow(i)
    \/ \E e \in LiveEvents : e.final /\ StreamEvent(i, e)
    \/ StreamEnd(i)
    \/ StreamThrow(i)

NextLive ==
    \/ SendMessage(<<"U">>, << >>)
    \/ \E i \in DOMAIN calls, e \in LiveEvents : StreamEvent(i, e)
    \/ \E i \in DOMAIN calls : RunUpdaters(i)
    \/ \E i \in DOMAIN calls : Completes(i)

Fairness ==
    \A i \in 1..MaxSends :
        /\ WF_vars(i \in DOMAIN calls /\ Completes(i))
        /\ WF_vars(i \in DOMAIN calls /\ RunUpdaters(i))

SpecLive == InitLive /\ [][NextLive]_vars /\ Fairness

\* a stream whose events are known beforehand: the events the agent sends in
\* answer to the first streaming send, read one at a time in order
StreamEvents ==
    [id : {NULL}, contextId : {NULL},
     status : {[kind |-> "absent", parts |-> << >>],
               [kind |-> "msg", parts |-> <<TextPart(<<"A">>)>>]},
     artifact : {NoArtifact, Artifact("a1", <<TextPart(<<"C">>)>>, ""),
                 Artifact("a1", <<TextPart(<<"C">>), FilePart("f1")>>, "")},
     append : {"absent", "true"}, final : BOOLEAN]

InitStream ==
    /\ props = [agentUrl |-> "url", isStreamingEnabled |-> TRUE, contextId |-> NULL]
    /\ messages = <<ChatMessage(1, "agent", Greeting, Undefined, Undefined),
                    ChatMessage(2, "user", <<"U">>, Undefined, Undefined)>>
    /\ isLoading = TRUE
    /\ currentTaskId = NULL
    /\ currentContextId = NULL
    /\ memo = [taskId |-> NULL, contextId |-> NULL]
    /\ calls = <<NewCall("stream", memo, TRUE)>>
    /\ stream \in [1..MaxEvents -> StreamEvents]
    /\ eventsLeft = Len(stream)
    /\ last = NoLast
    /\ relay = RelayIdle
    /\ client = ClientIdle
    /\ input = InputIdle

\* the event that the next iteration of the loop reads
NextStreamEvent == stream[Len(stream) - eventsLeft + 1]

NextStream ==
    \/ eventsLeft > 0 /\ StreamEvent(1, NextStreamEvent)
    \/ StreamEnd(1)
    \/ StreamThrow(1)

SpecStream == InitStream /\ [][NextStream]_vars

\* the blocking send on its own: the first sendMessage of a conversation in
\* blocking mode has been accepted, and client.sendMessage resolves with every
\* shape of reply, or throws
InitNormalizer ==
    /\ props \in [agentUrl : {"url"}, isStreamingEnabled : {FALSE},
                  contextId : {NULL} \cup PropContextIds]
    /\ messages = <<ChatMessage(1, "agent", Greeting, Undefined, Undefined),
                    ChatMessage(2, "user", <<"U">>, Undefined, Undefined)>>
    /\ isLoading = TRUE
    /\ currentTaskId = NULL
    /\ currentContextId = props.contextId
    /\ memo = [taskId |-> NULL, contextId |-> props.contextId]
    /\ calls = <<NewCall("sync", memo, TRUE)>>
    /\ eventsLeft = MaxEvents
    /\ last = NoLast
    /\ relay = RelayIdle
    /\ client = ClientIdle
    /\ stream = << >>
    /\ input = InputIdle

NextNormalizer ==
    \/ \E r \in NormalizerReplies : SyncResponse(1, r)
    \/ SyncThrow(1)

SpecNormalizer == InitNormalizer /\ [][NextNormalizer]_vars

\* the request of a send on its own: a conversation of any length up to
\* MaxTurns (the greeting, then user and agent turns in alternation), in which
\* sendMessage is called with any content and any list of attachments
Conversation(n) ==
    [k \in 1..n |->
        IF k = 1 THEN ChatMessage(1, "agent", Greeting, Undefined, Undefined)
        ELSE IF k % 2 = 0 THEN ChatMessage(k, "user", <<"U">>, Undefined, Undefined)
        ELSE ChatMessage(k, "agent", <<"A">>, Undefined, Undefined)]

InitRequest ==
    /\ props \in [agentUrl : {"url"}, isStreamingEnabled : BOOLEAN,
                  contextId : {NULL} \cup PropContextIds]
    /\ messages \in {Conversation(n) : n \in 1..MaxTurns}
    /\ isLoading = FALSE
    /\ currentTaskId = NULL
    /\ currentContextId = props.contextId
    /\ memo = [taskId |-> NULL, contextId |-> props.contextId]
    /\ calls = << >>
    /\ eventsLeft = MaxEvents
    /\ last = NoLast
    /\ relay = RelayIdle
    /\ client = ClientIdle
    /\ stream = << >>
    /\ input = InputIdle

RequestContents == {<< >>, <<SPACE>>, <<"U">>}

NextRequest ==
    \E content \in RequestContents, files \in AttachmentLists(MaxFiles) :
        SendMessage(content, files)

SpecRequest == InitRequest /\ [][NextRequest]_vars

\* the hook before any send, the relay and the client idle
InitIdle ==
    /\ props = [agentUrl |-> "url", isStreamingEnabled |-> FALSE, contextId |-> NULL]
    /\ messages = <<ChatMessage(1, "agent", Greeting, Undefined, Undefined)>>
    /\ isLoading = FALSE
    /\ currentTaskId = NULL
    /\ currentContextId = NULL
    /\ memo = [taskId |-> NULL, contextId |-> NULL]
    /\ calls = << >>
    /\ eventsLeft = MaxEvents
    /\ last = NoLast
    /\ relay = RelayIdle
    /\ client = ClientIdle
    /\ stream = << >>
    /\ input = InputIdle

\* the relay on its own: one POST, with every request and every response of
\* the target
NextRelay ==
    \/ \E request \in RelayRequests : RelayPost(request)
    \/ \E target \in TargetResponses : RelayFetchResolves(target)
    \/ RelayFetchThrows

SpecRelay == InitIdle /\ [][NextRelay]_vars

\* the client on its own: one discovery and one send
Statuses == {200, 404, 500}

NextClient ==
    \/ DiscoveryStart
    \/ \E status \in Statuses, parseable \in BOOLEAN, onUnparseable \in {"next", "fail"} :
           DiscoveryPathAnswer(status, parseable, onUnparseable)
    \/ DiscoveryPathThrows
    \/ \E ok \in BOOLEAN : DiscoveryFallback(ok)
    \/ TransportSend
    \/ TransportRead
    \/ \E outcome \in {"ok", "TransportError"} : TransportSettles(outcome)
    \/ TransportTimeout

SpecClient == InitIdle /\ [][NextClient]_vars

\* the file attachments of the input on their own
NextInput ==
    \/ \E files \in Selections : ProcessFiles(files)
    \/ \E b \in DOMAIN input.batches :
          \E readable \in SUBSET input.batches[b].newIds :
              ProcessFilesResolves(b, readable)
    \/ \E id \in AttachmentIds(input.fileAttachments) : HandleRemoveFile(id)

SpecInput == InitIdle /\ [][NextInput]_vars

\* ================================================================ claims
InFlightCalls == {k \in DOMAIN calls : InFlight(calls[k])}

\* a step in which a sendMessage call was accepted
Accepted == Len(calls') = Len(calls) + 1
Sent == calls'[Len(calls')].message

\* C1: at most one send of the conversation is in flight at any time
C1_AtMostOneInFlight == Cardinality(InFlightCalls) <= 1

\* C2: when the previous send started alone in a Fresh conversation, revealed
\* exactly the task id t and has completed, and no reset followed, the next
\* outgoing message carries taskId t and no contextId
C2_NextMessageCarriesRevealedTask ==
    [][(/\ Accepted
        /\ Len(calls) >= 1
        /\ calls[Len(calls)].pc = "done"
        /\ calls[Len(calls)].track \in TaskIds)
       => Sent = [taskId |-> calls[Len(calls)].track, contextId |-> NULL]]_vars

\* C3: every outgoing message carries at most one of taskId and contextId; it
\* carries the conversation's task id whenever there is one, and a contextId
\* only when there is no task id, and then the conversation's context id
C3_TaskIdTakesPrecedence ==
    [][Accepted =>
        /\ ~(Sent.taskId # NULL /\ Sent.contextId # NULL)
        /\ currentTaskId # NULL => Sent.taskId = currentTaskId
        /\ Sent.contextId # NULL =>
              currentTaskId = NULL /\ Sent.contextId = currentContextId]_vars

\* C4: once the conversation is Bound, currentTaskId keeps its value until a
\* reset sets it to null
C4_BoundTaskIdIsKept ==
    [][currentTaskId # NULL => currentTaskId' \in {currentTaskId, NULL}]_vars

\* C5: after resetConversation the task id is null and the context id is the
\* contextId prop, or null when no prop was supplied
C5_ResetClearsTaskKeepsSuppliedContext ==
    last.op = "reset" =>
        /\ currentTaskId = NULL
        /\ currentContextId = props.contextId
        /\ currentContextId \in {NULL} \cup PropContextIds

\* a reset of a conversation that was Bound to a task and had taken a context
\* id from the server, with a contextId prop supplied
C5_Witness ==
    /\ last.op = "reset"
    /\ memo.taskId \in TaskIds
    /\ memo.contextId \in ServerContextIds
    /\ props.contextId \in PropContextIds
    /\ currentTaskId = NULL

\* the artifacts of the accumulator of call i that have artifactId a
Stored(i, a) ==
    {k \in DOMAIN calls[i].accumulatedArtifacts :
        calls[i].accumulatedArtifacts[k].artifactId = a}

\* C6: an event that reaches the text reconciliation with a non-empty chunk c
\* while the running text is r leaves the running text r \o c when its append
\* flag is true, and exactly c when the flag is false or absent
C6_AppendOrReplace ==
    (last.op = "event" /\ ~last.skipped /\ last.newTextChunk # << >>) =>
        calls[last.call].accumulatedText =
            IF last.isAppendMode THEN last.prevText \o last.newTextChunk
            ELSE last.newTextChunk

\* the chunk "B" arrives without append after the running text was "A", and
\* the running text is now "B"
C6_Witness ==
    /\ last.op = "event"
    /\ last.prevText = <<"A">>
    /\ last.newTextChunk = <<"B">>
    /\ ~last.isAppendMode
    /\ calls[last.call].accumulatedText = <<"B">>

\* C7 as stated: when every artifact-update event of a stream carried append
\* true and an artifact id was delivered three times, the accumulator holds
\* exactly one artifact with that id, whose parts are the concatenation of the
\* three deliveries in order
C7_ThreeDeliveriesConcatenated ==
    \A i \in DOMAIN calls, a \in ArtifactIds :
        (calls[i].allAppend /\ calls[i].delivered[a].n = 3) =>
            /\ Cardinality(Stored(i, a)) = 1
            /\ \A k \in Stored(i, a) :
                 calls[i].accumulatedArtifacts[k].parts = calls[i].delivered[a].parts

\* C7 amended: the same, when each of the three deliveries has at least one
\* non-text part
C7_ThreeNonTextDeliveriesConcatenated ==
    \A i \in DOMAIN calls, a \in ArtifactIds :
        (/\ calls[i].allAppend
         /\ calls[i].delivered[a].n = 3
         /\ calls[i].delivered[a].nonText) =>
            /\ Cardinality(Stored(i, a)) = 1
            /\ \A k \in Stored(i, a) :
                 calls[i].accumulatedArtifacts[k].parts = calls[i].delivered[a].parts

\* three append deliveries of a1 with different file parts, merged in order
C7_Witness ==
    \E i \in DOMAIN calls :
        /\ calls[i].allAppend
        /\ calls[i].delivered["a1"].n = 3
        /\ calls[i].delivered["a1"].nonText
        /\ calls[i].delivered["a1"].parts =
              <<FilePart("f1"), FilePart("f2"), TextPart(<<"C">>), FilePart("f1")>>
        /\ calls[i].pc = "done"

\* C8: every artifact in the accumulator has at least one non-text part (so
\* it is neither a placeholder nor text-only), and no two artifacts in it
\* share an artifactId
C8_StoredArtifactsAreNonTextAndUnique ==
    \A i \in DOMAIN calls :
        LET arts == calls[i].accumulatedArtifacts IN
        /\ \A k \in DOMAIN arts : \E j \in DOMAIN arts[k].parts :
              arts[k].parts[j].kind # "text"
        /\ \A k, j \in DOMAIN arts :
              arts[k].artifactId = arts[j].artifactId => k = j

\* a placeholder or text-only delivery of a1 among the events, a1 and a2
\* both stored
C8_Witness ==
    \E i \in DOMAIN calls :
        /\ calls[i].delivered["a1"].n >= 2
        /\ ~calls[i].delivered["a1"].nonText
        /\ Len(calls[i].accumulatedArtifacts) = 2

\* C9: a call that has just read an event carrying final: true has left its
\* stream loop
C9_FinalEventEndsStream ==
    (last.op = "event" /\ last.final) => calls[last.call].pc = "done"

\* C10: when a call has read a final event and its accumulator holds text or
\* artifacts, the conversation holds the agent message of that call, with the
\* running text as content and the reconciled artifact list as artifacts
C10_FinalTurnIsTextAndArtifacts ==
    \A i \in DOMAIN calls :
        (/\ calls[i].ended = "final" \/ (last.op = "event" /\ last.call = i /\ last.final)
         /\ calls[i].accumulatedText # << >> \/ calls[i].accumulatedArtifacts # << >>) =>
            \E k \in DOMAIN messages :
                /\ messages[k].id = calls[i].agentMessageId
                /\ messages[k].sender = "agent"
                /\ messages[k].content = calls[i].accumulatedText
                /\ messages[k].artifacts.list = calls[i].accumulatedArtifacts

\* ------------------------------------------------- failures of a stream
UserMessageIndexes == {k \in DOMAIN messages : messages[k].sender = "user"}

\* the position of the user message that call i appended: every accepted
\* send appends exactly one, in call order
UserIndex(i) ==
    CHOOSE k \in UserMessageIndexes :
        Cardinality({j \in UserMessageIndexes : j <= k}) = i

\* a content that shows an error marker
IsErrorText(content) ==
    \E k \in DOMAIN content : content[k] \in {StreamingErrorText[1], ErrorText[1]}

StartsWith(content, prefix) ==
    /\ Len(content) >= Len(prefix)
    /\ SubSeq(content, 1, Len(prefix)) = prefix

\* the agent turns that follow the user message of call i show an error
TurnShowsError(i) ==
    \E k \in DOMAIN messages :
        /\ k > UserIndex(i)
        /\ messages[k].sender = "agent"
        /\ IsErrorText(messages[k].content)

\* C11: when the stream of a call threw after some text had accumulated, the
\* agent turn of the call still shows the accumulated text, with an error
\* marker added to it
C11_PartialTextKeptOnStreamError ==
    \A i \in DOMAIN calls :
        (calls[i].ended = "error" /\ calls[i].accumulatedText # << >>) =>
            \E k \in DOMAIN messages :
                /\ messages[k].id = calls[i].agentMessageId
                /\ StartsWith(messages[k].content, calls[i].accumulatedText)
                /\ IsErrorText(messages[k].content)

\* C12: every call whose request or stream failed, at whatever point, left a
\* visible error in the conversation after its user message
C12_FailureIsVisible ==
    \A i \in DOMAIN calls : calls[i].ended = "error" => TurnShowsError(i)

\* C13: every call whose event sequence ended without a final event left an
\* error in the conversation after its user message
C13_EndWithoutFinalIsAnError ==
    \A i \in DOMAIN calls : calls[i].ended = "eof" => TurnShowsError(i)

\* ------------------------------------------- the blocking-send normalizer
\* the step just taken normalized a reply that is an object
Normalized == last.op = "reply" /\ ~last.reply.isNull

RECURSIVE NewlineJoined(_)
\* the non-empty per-artifact texts, joined by a newline
NewlineJoined(artifacts) ==
    IF artifacts = << >> THEN << >>
    ELSE LET head == JoinText(Head(artifacts).parts)
             rest == NewlineJoined(Tail(artifacts))
         IN IF head = << >> THEN rest
            ELSE IF rest = << >> THEN head
            ELSE head \o <<"\n">> \o rest

\* the three reply shapes
IsBareMessage(r) ==
    r.kind = "message" /\ r.parts.defined /\ ~r.artifacts.defined /\ ~r.status.present
IsTaskWithStatusMessage(r) ==
    r.kind = "task" /\ r.status.hasParts /\ ~r.parts.defined
IsTaskWithArtifacts(r) ==
    r.kind = "task" /\ r.artifacts.defined /\ ~r.status.hasParts /\ ~r.parts.defined

\* the text parts of a reply's shape in source order: concatenated within a
\* parts array, and from one artifact to the next joined by a newline
ShapeText(r) ==
    IF IsTaskWithStatusMessage(r) THEN JoinText(r.status.parts)
    ELSE IF IsTaskWithArtifacts(r) THEN NewlineJoined(r.artifacts.list)
    ELSE JoinText(r.parts.list)

\* C14: for a reply of one of the three shapes (bare Message, Task with
\* status.message.parts, Task with top-level artifacts) whose text parts are
\* not all empty, the normalizer returns the text parts of the shape in source
\* order
C14_TextIsConcatenationOfShapeTextParts ==
    LET r == last.reply IN
    (/\ Normalized
     /\ IsBareMessage(r) \/ IsTaskWithStatusMessage(r) \/ IsTaskWithArtifacts(r)
     /\ ShapeText(r) # << >>)
        => last.syncResponse.text = ShapeText(r)

\* C15: the normalizer dispatches in order: the Task-status rule only for a
\* Task with status.message.parts; otherwise the artifacts rule (non-empty
\* per-artifact texts joined by a newline, artifact list kept) for a reply with
\* top-level artifacts; otherwise the parts rule for a reply with top-level
\* parts.  Each rule's text is required when it is not empty.
C15_DispatchOrder ==
    LET r == last.reply
        t == last.syncResponse
    IN
    Normalized =>
        IF r.kind = "task" /\ r.status.hasParts
        THEN JoinText(r.status.parts) # << >> => t.text = JoinText(r.status.parts)
        ELSE IF r.artifacts.defined
        THEN /\ NewlineJoined(r.artifacts.list) # << >>
                    => t.text = NewlineJoined(r.artifacts.list)
             /\ t.artifacts = r.artifacts.list
        ELSE IF r.parts.defined
        THEN JoinText(r.parts.list) # << >> => t.text = JoinText(r.parts.list)
        ELSE TRUE

\* the branch the normalizer selects, and whether it yields text
Branch(r) ==
    IF r.kind = "task" /\ r.status.present THEN "status"
    ELSE IF r.artifacts.defined THEN "artifacts"
    ELSE IF r.parts.defined THEN "parts"
    ELSE "none"

BranchText(r) ==
    CASE Branch(r) = "status" -> JoinText(r.status.parts)
      [] Branch(r) = "artifacts" -> NewlineJoined(r.artifacts.list)
      [] Branch(r) = "parts" -> JoinText(r.parts.list)
      [] OTHER -> << >>

\* C16 as stated: when the selected branch yields no text, the text is
\* "No response" for the Task-status and artifacts branches and
\* "Empty response" for the bare-Message branch
C16_PlaceholderPerBranch ==
    LET r == last.reply IN
    (Normalized /\ Branch(r) # "none" /\ BranchText(r) = << >>) =>
        last.syncResponse.text =
            IF Branch(r) = "parts" THEN EmptyResponse ELSE NoResponse

\* C16 (amended): when the selected branch yields no text, the text is
\* "Empty response" where a parts array was read (the bare-Message branch, and
\* the Task-status branch when status.message.parts is present), and
\* "No response" for the artifacts branch and for a Task whose status has no
\* message parts
C16_PlaceholderPerPartsArray ==
    LET r == last.reply IN
    (Normalized /\ Branch(r) # "none" /\ BranchText(r) = << >>) =>
        last.syncResponse.text =
            IF Branch(r) = "parts" \/ (Branch(r) = "status" /\ r.status.hasParts)
            THEN EmptyResponse ELSE NoResponse

C16_Witness ==
    /\ Normalized
    /\ Branch(last.reply) = "status"
    /\ last.reply.status.parts = <<FilePart("f1")>>
    /\ last.syncResponse.text = EmptyResponse
    /\ messages[Len(messages)].content = EmptyResponse

\* C17: in the state in which the turn of a blocking send appears, the
\* conversation's task id is the reply's id when the reply has one, and the
\* conversation's context id is the reply's top-level contextId, or else the
\* contextId inside status.message, when the reply has one
C17_IdsSavedFromBlockingReply ==
    LET r == last.reply IN
    Normalized =>
        /\ messages[Len(messages)].content = last.syncResponse.text
        /\ r.id # NULL => currentTaskId = r.id
        /\ r.contextId # NULL => currentContextId = r.contextId
        /\ (r.contextId = NULL /\ r.status.contextId # NULL)
               => currentContextId = r.status.contextId

C17_Witness ==
    /\ Normalized
    /\ last.call = 2
    /\ last.reply.id = "t2"
    /\ last.reply.contextId = NULL
    /\ last.reply.status.contextId = "c1"
    /\ props.contextId = "c0"
    /\ currentTaskId = "t2"
    /\ currentContextId = "c1"

\* ------------------------------------------------ the request of a send
\* the step just taken was an accepted sendMessage call; its user message is
\* the last of messages, and the turns before it are the prior turns
SendAccepted == last.op = "send"
PriorTurns == SubSeq(messages, 1, Len(messages) - 1)

\* how many prior turns the history of the request must hold
ExpectedHistoryLength ==
    LET n == Len(PriorTurns) IN
    IF n = 1 /\ PriorTurns[1].content = Greeting THEN 0
    ELSE IF n < 10 THEN n ELSE 10

\* C18: the history attached to a send is the last 10 turns that precede the
\* message being sent (all of them when fewer), in order, and empty when the
\* only prior turn is the greeting; a blocking send declares historyLength
\* equal to the number of history entries and blocking true
C18_HistoryIsLastTenPriorTurns ==
    SendAccepted =>
        LET h == last.request.messageHistory
            n == Len(PriorTurns)
            k == ExpectedHistoryLength
        IN /\ Len(h) = k
           /\ \A j \in 1..k :
                 /\ h[j].originalId = PriorTurns[n - k + j].id
                 /\ h[j].text = PriorTurns[n - k + j].content
                 /\ h[j].role = PriorTurns[n - k + j].sender
           /\ last.request.method = "sync" =>
                 /\ last.request.configuration.historyLength = k
                 /\ last.request.configuration.blocking

C18_Witness ==
    /\ SendAccepted
    /\ last.request.method = "sync"
    /\ Len(PriorTurns) = 12
    /\ Len(last.request.messageHistory) = 10
    /\ last.request.messageHistory[1].originalId = 3
    /\ last.request.messageHistory[10].originalId = 12
    /\ last.request.configuration.historyLength = 10

\* the attachments of the send whose read completed, in attachment order
ReadyAttachments == SelectSeq(last.fileAttachments, LAMBDA f : f.status = "ready")

\* C19: the parts of the outgoing message are the text part followed by one
\* file part per attachment with status ready, in attachment order
C19_OneFilePartPerReadyAttachment ==
    SendAccepted =>
        LET parts == last.request.parts IN
        /\ Len(parts) = 1 + Len(ReadyAttachments)
        /\ parts[1] = TextPart(last.content)
        /\ \A j \in 1..Len(ReadyAttachments) :
              /\ parts[j + 1].kind = "file"
              /\ parts[j + 1].name = ReadyAttachments[j].name

\* C20: every accepted sendMessage call has issued exactly one request, also
\* after its request or stream failed
C20_OneRequestPerAcceptedSend ==
    /\ Len(calls) = Cardinality(UserMessageIndexes)
    /\ \A i \in DOMAIN calls : calls[i].requests = 1

C20_Witness ==
    /\ Len(calls) = 2
    /\ calls[1].ended = "error"
    /\ calls[2].ended = "error"
    /\ calls[1].pc = "done" /\ calls[2].pc = "done"
    /\ calls[1].requests = 1 /\ calls[2].requests = 1

\* ------------------------------------------------------------ the relay
\* the relay has refused the request with 403 and has not called fetch
Rejected == relay.pc = "responded" /\ relay.response.status = 403 /\ ~relay.fetched

\* C21 as stated: every request (with a body that names a target) with an
\* Origin header that differs from the relay's origin, and every such request
\* without Origin header whose Referer has another origin than the relay, is
\* answered 403 and the target is not contacted
C21_ForeignOriginRejected ==
    LET request == relay.request IN
    (relay.pc # "idle" /\ request.valid /\ request.url # "") =>
        /\ (request.origin # ABSENT /\ request.origin # OwnOrigin) => Rejected
        /\ (/\ request.origin = ABSENT
            /\ request.referer.valid
            /\ request.referer.origin # OwnOrigin) => Rejected

\* C21 (amended): every request with a non-empty Origin header that differs
\* from the relay's origin, and every request with no Origin header or an
\* empty one whose Referer parses to another origin than the relay's, is
\* answered 403 and the target is not contacted
C21_ForeignNonEmptyOriginRejected ==
    LET request == relay.request IN
    relay.pc # "idle" =>
        /\ (request.origin \notin {ABSENT, "", OwnOrigin}) => Rejected
        /\ (/\ request.origin \in {ABSENT, ""}
            /\ request.referer.valid
            /\ request.referer.origin # OwnOrigin) => Rejected

C21_Witness ==
    /\ Rejected
    /\ relay.request.origin = ABSENT
    /\ relay.request.referer = Referer(OtherOrigin)
    /\ relay.request.url = "target"
    /\ relay.outgoing = NoOutgoing

StrippedNames == {"connection", "keep-alive", "proxy-authenticate",
                  "proxy-authorization", "te", "trailers", "transfer-encoding",
                  "upgrade", "content-encoding", "content-length"}

\* C22 as stated: no response of the relay, streaming or not, carries one of
\* the hop-by-hop headers, content-encoding or content-length
C22_NoStrippedHeaderInResponse ==
    relay.pc = "responded" => DOMAIN relay.response.headers \cap StrippedNames = {}

\* C22 (amended): a response of the relay that is not a stream carries none of
\* these headers; a streaming response carries none of them but the relay's
\* own "connection: keep-alive"
C22_NoStrippedHeaderButOwnConnection ==
    relay.pc = "responded" =>
        IF relay.response.streamed
        THEN /\ DOMAIN relay.response.headers \cap StrippedNames = {"connection"}
             /\ relay.response.headers["connection"] = "keep-alive"
        ELSE DOMAIN relay.response.headers \cap StrippedNames = {}

C22_Witness ==
    /\ relay.pc = "responded"
    /\ relay.fetched
    /\ ~relay.response.streamed
    /\ relay.response.status = 200
    /\ DOMAIN relay.response.headers = {"content-type", "x-up"}

\* the value a record of headers gives to a header name, in any spelling
Given(record, n) == {record[k] : k \in {j \in DOMAIN record : Lower(j) = n}}

\* C23: the headers sent to the target are the base headers merged with the
\* custom headers: a name in both has the custom value, a name in one of them
\* has the value given there, and no other name is sent
C23_CustomHeadersOverrideBase ==
    relay.fetched =>
        LET base == relay.request.headers
            custom == relay.request.customHeaders.record
            sent == relay.outgoing.headers
            names == {Lower(k) : k \in DOMAIN base \cup DOMAIN custom}
        IN /\ DOMAIN sent = names
           /\ \A n \in names :
                 IF Given(custom, n) # {} THEN sent[n] \in Given(custom, n)
                 ELSE sent[n] \in Given(base, n)

C23_Witness ==
    /\ relay.fetched
    /\ DOMAIN relay.request.headers = {"Authorization", "x-a"}
    /\ DOMAIN relay.request.customHeaders.record = {"authorization"}
    /\ relay.outgoing.headers["authorization"] = "c"
    /\ relay.outgoing.headers["x-a"] = "b"

\* ----------------------------------------------------------- discovery
Answers == client.discovery.answers

\* C24: discovery asks the well-known paths in their order, and when a path
\* gives the descriptor it is the first one that answered 200 with a parseable
\* descriptor, and the descriptor is that path's content
C24_FirstAnsweringPathWins ==
    /\ \A k \in DOMAIN Answers : Answers[k].path = WellKnownPaths[k]
    /\ (client.discovery.result = "card" /\ ~client.discovery.fallbackTried) =>
          LET n == Len(Answers) IN
          /\ n >= 1
          /\ Answers[n].status = 200 /\ Answers[n].parseable
          /\ \A k \in 1..(n - 1) : ~(Answers[k].status = 200 /\ Answers[k].parseable)
          /\ client.discovery.card = <<"card", Answers[n].path>>

C24_Witness ==
    /\ client.discovery.result = "card"
    /\ Len(Answers) = 2
    /\ Answers[1].status = 404
    /\ Answers[2].status = 200
    /\ client.discovery.card = <<"card", "/.well-known/agent.json">>

\* C25: an answer that is neither 200 nor 404 is the last request of
\* discovery, which has failed without the fallback; the protocol-level
\* method is tried only after every well-known path answered 404
C25_HardFailureAndFallbackOnlyAfter404 ==
    /\ \A k \in DOMAIN Answers :
          Answers[k].status \notin {200, 404} =>
              /\ k = Len(Answers)
              /\ client.discovery.result = "failed"
              /\ client.discovery.pc = "done"
              /\ ~client.discovery.fallbackTried
    /\ (client.discovery.pc = "fallback" \/ client.discovery.fallbackTried) =>
          /\ Len(Answers) = Len(WellKnownPaths)
          /\ \A k \in DOMAIN Answers : Answers[k].status = 404

C25_Witness ==
    /\ Len(Answers) = 1
    /\ Answers[1].status = 500
    /\ client.discovery.result = "failed"
    /\ client.discovery.pc = "done"

\* C26: the step in which the timeout expires resolves the pending send to a
\* Timeout error, and no step after it reads from the connection
C26_TimeoutResolvesAndStopsReads ==
    [][/\ client'.transport.expired => client'.transport.outcome = "Timeout"
       /\ client.transport.expired => client'.transport.reads = client.transport.reads]_vars

C26_Witness ==
    /\ client.transport.expired
    /\ client.transport.outcome = "Timeout"
    /\ client.transport.reads = 1
    /\ client.transport.pc = "done"

\* ------------------------------------------------------ the agent message
EndsWithCursor(content) == content # << >> /\ content[Len(content)] = CURSOR

\* C27: once the sendMessageStream of a call has returned, by a final event,
\* by the end of its event sequence or by a failure, the agent message of that
\* call does not end with the streaming cursor
C27_NoCursorAfterStreamReturned ==
    \A i \in DOMAIN calls :
        (calls[i].pc = "done" /\ calls[i].agentMessageId # 0) =>
            \A k \in DOMAIN messages :
                messages[k].id = calls[i].agentMessageId =>
                    ~EndsWithCursor(messages[k].content)

\* the parts array of a reply's shape: the parts of a bare Message, the parts
\* of a Task's status message; a Task that answers with artifacts has none
ShapeParts(r) ==
    IF IsBareMessage(r) THEN r.parts.list
    ELSE IF IsTaskWithStatusMessage(r) THEN r.status.parts
    ELSE << >>

\* C28: the agent message built from a blocking reply of one of the three
\* shapes carries the reply's parts exactly when one of them is not a text
\* part, and has no parts field otherwise
C28_PartsShownIffNonText ==
    (/\ Normalized
     /\ \/ IsBareMessage(last.reply)
        \/ IsTaskWithStatusMessage(last.reply)
        \/ IsTaskWithArtifacts(last.reply)) =>
        LET agentMessage == messages[Len(messages)]
            parts == ShapeParts(last.reply)
        IN /\ agentMessage.sender = "agent"
           /\ agentMessage.parts = IF HasNonTextParts(parts) THEN Defined(parts)
                                   ELSE Undefined

C28_Witness ==
    /\ Normalized
    /\ IsBareMessage(last.reply)
    /\ Len(last.reply.parts.list) = 3
    /\ messages[Len(messages)].parts = Defined(last.reply.parts.list)
    /\ messages[Len(messages)].content = <<"E", "G">>

\* ------------------------------------------- the chunk of one stream event
\* the event that the step just taken read from the stream
ReadEvent == stream[Len(stream) - eventsLeft]
StatusText(e) == IF e.status.kind = "msg" THEN JoinText(e.status.parts) ELSE << >>
ArtifactText(e) == IF e.artifact.present THEN JoinText(e.artifact.parts) ELSE << >>
BothCandidates(e) == StatusText(e) # << >> /\ ArtifactText(e) # << >>

\* C29: when the event just read holds text both in its status message and in
\* its artifact, the chunk applied to the running text is the artifact's text:
\* the running text is the previous one reconciled with it, and the status
\* text is not in the chunk
C29_ArtifactTextOverridesStatusText ==
    (last.op = "event" /\ stream # << >> /\ BothCandidates(ReadEvent)) =>
        /\ last.newTextChunk = ArtifactText(ReadEvent)
        /\ last.newTextChunk # StatusText(ReadEvent)
        /\ calls[last.call].accumulatedText =
              ReconcileText(last.prevText, ArtifactText(ReadEvent), last.isAppendMode)

C29_Witness ==
    /\ last.op = "event"
    /\ stream # << >>
    /\ BothCandidates(ReadEvent)
    /\ ~last.isAppendMode
    /\ last.prevText = <<"A">>
    /\ calls[1].accumulatedText = <<"C">>

\* C30: every stream has appended at most one agent message to the
\* conversation, and none before it read a text chunk
C30_OneAgentMessagePerStream ==
    \A i \in DOMAIN calls :
        /\ calls[i].appended <= 1
        /\ calls[i].appended > 0 => calls[i].accumulatedText # << >>

\* ----------------------------------------------- frame of a failed send
\* the step fails a blocking send: client.sendMessage of a call threw
BlockingSendFails ==
    \E i \in DOMAIN calls :
        calls[i].pc = "sync" /\ calls'[i].pc = "done" /\ calls'[i].ended = "error"

\* C31: the step in which a blocking send fails changes neither the task id
\* nor the context id of the conversation
C31_FailedBlockingSendKeepsIds ==
    [][BlockingSendFails =>
          /\ currentTaskId' = currentTaskId
          /\ currentContextId' = currentContextId]_vars

C31_Witness ==
    /\ ~props.isStreamingEnabled
    /\ Len(calls) = 2
    /\ calls[1].ended = "reply"
    /\ calls[2].ended = "error"
    /\ currentTaskId \in TaskIds
    /\ currentContextId \in ServerContextIds
    /\ currentContextId # props.contextId

\* ------------------------------------------- a reset during a send in flight
\* the step completes a send that was in flight
SendCompletes ==
    \E i \in DOMAIN calls : InFlight(calls[i]) /\ calls'[i].pc = "done"

\* C32: when resetConversation has just run while a send was in flight, the
\* step that completes that send leaves the conversation's task id null
C32_ResetNotUndoneBySendInFlight ==
    [][(last.op = "reset" /\ SendCompletes) => currentTaskId' = NULL]_vars

\* ------------------------------------------- the message list, blocking mode
IsPrefix(s, t) == Len(s) <= Len(t) /\ SubSeq(t, 1, Len(s)) = s

DoneCalls == {i \in DOMAIN calls : calls[i].pc = "done"}

\* the list is the greeting followed by one turn per accepted send in call
\* order: the user message and, once the send has completed, one agent message
BlockingTurns ==
    /\ Len(messages) = 1 + Len(calls) + Cardinality(DoneCalls)
    /\ \A i \in DOMAIN calls :
          /\ messages[2 * i].sender = "user"
          /\ i \in DoneCalls =>
                /\ messages[2 * i + 1].sender = "agent"
                /\ calls[i].ended = "error" => messages[2 * i + 1].content = ErrorText

\* C33: in blocking mode every step keeps the messages it found in place and
\* appends at most one; the list is then one user message and one agent
\* message per completed send, and the agent message appended for a reply is
\* the normalized reply
C33_BlockingSendAppendsOneTurn ==
    [][~props.isStreamingEnabled =>
          /\ IsPrefix(messages, messages')
          /\ Len(messages') <= Len(messages) + 1
          /\ BlockingTurns'
          /\ last'.op = "reply" =>
                /\ Len(messages') = Len(messages) + 1
                /\ messages'[Len(messages')].content = last'.syncResponse.text
                /\ messages'[Len(messages')].sender = "agent"]_vars

C33_Witness ==
    /\ ~props.isStreamingEnabled
    /\ Len(calls) = 2
    /\ DoneCalls = {1, 2}
    /\ calls[1].ended = "reply"
    /\ calls[2].ended = "error"
    /\ Len(messages) = 5
    /\ messages[5].content = ErrorText

\* C34: the ids of the messages of the list are pairwise distinct, every
\* message holding its position as id, so that the message an update is
\* addressed to by the id of a call's agent message is exactly one
C34_MessageIdsAreDistinct ==
    /\ \A k \in DOMAIN messages : messages[k].id = k
    /\ \A j, k \in DOMAIN messages : messages[j].id = messages[k].id => j = k
    /\ \A i \in DOMAIN calls :
          calls[i].agentMessageId # 0 =>
              Cardinality({k \in DOMAIN messages :
                              messages[k].id = calls[i].agentMessageId}) = 1

\* two streams of one conversation, each with its own agent message
C34_Witness ==
    /\ Len(calls) = 2
    /\ calls[1].agentMessageId # 0
    /\ calls[2].agentMessageId # 0
    /\ calls[1].agentMessageId # calls[2].agentMessageId
    /\ Len(messages) >= 5

\* ------------------------------------------------------------ the busy flag
\* C35: whenever isLoading is true it is false again later, in every run in
\* which each client call returns or throws and each stream ends
C35_LoadingEventuallyCleared == isLoading ~> ~isLoading

\* a stream that ended without a final event, with the flag cleared
C35_Witness ==
    /\ Len(calls) = 2
    /\ calls[1].ended = "final"
    /\ calls[2].ended = "eof"
    /\ calls[2].agentMessageId = 0
    /\ ~isLoading

\* ------------------------------------------ the relay: requests let through
\* C36: a request with neither an Origin nor a Referer header is never
\* answered 403, and when its body names a target it is forwarded to that URL
C36_NoOriginNoRefererIsForwarded ==
    LET request == relay.request IN
    (/\ relay.pc # "idle"
     /\ request.origin = ABSENT
     /\ request.referer = NoReferer) =>
        /\ ~Rejected
        /\ (request.valid /\ request.url # "") =>
              /\ relay.fetched
              /\ relay.outgoing.url = request.url

C36_Witness ==
    /\ relay.pc = "responded"
    /\ relay.request.origin = ABSENT
    /\ relay.request.referer = NoReferer
    /\ relay.fetched
    /\ relay.outgoing.url = "target"
    /\ relay.response.status = 200

\* an exception was raised while the request was handled: by new URL(referer),
\* by request.json(), by fetch, or by new Response for the target's answer
ExceptionRaised ==
    LET request == relay.request IN
    \/ OriginCheck(request) = "throw"
    \/ OriginCheck(request) = "ok" /\ ~request.valid
    \/ relay.upstream.settled = "threw"
    \/ /\ relay.upstream.settled = "response"
       /\ ~relay.upstream.sse
       /\ relay.upstream.status \in NullBodyStatuses

AllRead == \A b \in DOMAIN input.batches : input.batches[b].pc = "done"

\* C38: an attachment removed while files of another processFiles call were
\* being read is not in the list
C38_RemovedStaysRemoved ==
    \A k \in DOMAIN input.fileAttachments :
        input.fileAttachments[k].id \notin input.removed

\* C38, second part: once every read has completed, every attachment of the
\* list is ready or in error
C38_ReadsEndReadyOrError ==
    AllRead =>
        \A k \in DOMAIN input.fileAttachments :
            input.fileAttachments[k].status \in {"ready", "error"}

====
